---- MODULE Spec2Model ----
(***************************************************************************)
(* Model of the YouTube transcript endpoint of src/main.py:                *)
(* extract_video_id (the reference resolver) and get_transcript (the three *)
(* fallback methods, the final checks and the error boundary).             *)
(*                                                                         *)
(* Python strings are TLA+ strings; an Optional value is a tuple of length *)
(* at most one (None is <<>>, a present value x is <<x>>).                 *)
(***************************************************************************)
EXTENDS Integers, Sequences, FiniteSets, TLC

None == <<>>

Some(x) == <<x>>

\* f"{x}" of an Optional[str]: None renders as the text None.
Fmt(x) == IF x = None THEN "None" ELSE x[1]

(***************************************************************************)
(* String helpers (str.find, the `in` operator, str.lower, str.join).      *)
(***************************************************************************)
\* the Python slice s[a-1:b]: positions a..b of s, clipped to the string
Slice(s, a, b) ==
  LET lo == IF a < 1 THEN 1 ELSE a
      hi == IF b > Len(s) THEN Len(s) ELSE b
  IN IF lo > hi THEN "" ELSE SubSeq(s, lo, hi)

CharAt(s, i) == Slice(s, i, i)

\* s.find(m) + 1: the first position of m in s, 0 when m does not occur.
IndexOf(s, m) ==
  LET idx == {i \in 1..(Len(s) - Len(m) + 1) : Slice(s, i, i + Len(m) - 1) = m}
  IN IF idx = {} THEN 0 ELSE CHOOSE i \in idx : \A j \in idx : i <= j

\* s.rfind(m) + 1
LastIndexOf(s, m) ==
  LET idx == {i \in 1..(Len(s) - Len(m) + 1) : Slice(s, i, i + Len(m) - 1) = m}
  IN IF idx = {} THEN 0 ELSE CHOOSE i \in idx : \A j \in idx : i >= j

\* m in s
Contains(s, m) == IndexOf(s, m) > 0

UpperChars == "ABCDEFGHIJKLMNOPQRSTUVWXYZ"

LowerChars == "abcdefghijklmnopqrstuvwxyz"

DigitChars == "0123456789"

CharsOf(s) == {CharAt(s, i) : i \in 1..Len(s)}

UpperSet == CharsOf(UpperChars)

AlphaSet == CharsOf(UpperChars) \cup CharsOf(LowerChars)

\* the character class [a-zA-Z0-9_-]
IdCharSet == AlphaSet \cup CharsOf(DigitChars) \cup {"_", "-"}

\* urllib.parse.scheme_chars
SchemeCharSet == AlphaSet \cup CharsOf(DigitChars) \cup {"+", "-", "."}

LowerOf == [c \in UpperSet |-> CharAt(LowerChars, IndexOf(UpperChars, c))]

LowerChar(c) == IF c \in UpperSet THEN LowerOf[c] ELSE c

RECURSIVE Lower(_)
Lower(s) == IF s = "" THEN "" ELSE LowerChar(CharAt(s, 1)) \o Lower(Slice(s, 2, Len(s)))

\* s.replace('+', ' ')
RECURSIVE PlusToSpace(_)
PlusToSpace(s) ==
  IF s = "" THEN ""
  ELSE (IF CharAt(s, 1) = "+" THEN " " ELSE CharAt(s, 1)) \o PlusToSpace(Slice(s, 2, Len(s)))

\* sep.join(parts)
RECURSIVE Join(_, _)
Join(parts, sep) ==
  IF parts = <<>> THEN ""
  ELSE IF Len(parts) = 1 THEN parts[1]
  ELSE parts[1] \o sep \o Join(Tail(parts), sep)

IsAlpha(c) == c \in AlphaSet

IsIdChar(c) == c \in IdCharSet

IsSchemeChar(c) == c \in SchemeCharSet

\* [a-zA-Z0-9_-]{11} over the whole string (re.fullmatch)
MatchesIdPattern(s) == Len(s) = 11 /\ (\A i \in 1..Len(s) : IsIdChar(CharAt(s, i)))

\* re.match(r'^[a-zA-Z0-9_-]{11}$', s): `$` also matches before one trailing newline.
re_match(s) ==
  \/ MatchesIdPattern(s)
  \/ Len(s) = 12 /\ CharAt(s, 12) = "\n" /\ MatchesIdPattern(Slice(s, 1, 11))

(***************************************************************************)
(* urllib.parse.urlparse and parse_qs, as far as extract_video_id uses     *)
(* them (scheme, netloc, path, query, fragment, hostname).  The inputs of  *)
(* the model contain no '[', ';', '%' or control characters, so IPv6       *)
(* brackets, path parameters and percent-decoding are not modelled.        *)
(***************************************************************************)
\* the first position in s of any character of the set cs, Len(s)+1 when none occurs
FirstOfAny(s, cs) ==
  LET idx == {i \in 1..Len(s) : CharAt(s, i) \in cs}
  IN IF idx = {} THEN Len(s) + 1 ELSE CHOOSE i \in idx : \A j \in idx : i <= j

\* urlsplit: the length of the scheme and its colon, 0 when the url has no scheme
scheme_end(url) ==
  LET colon == IndexOf(url, ":")
  IN IF /\ colon > 1
        /\ IsAlpha(CharAt(url, 1))
        /\ \A i \in 1..(colon - 1) : IsSchemeChar(CharAt(url, i))
     THEN colon ELSE 0

after_scheme(url) == Slice(url, scheme_end(url) + 1, Len(url))

has_netloc(rest) == Slice(rest, 1, 2) = "//"

\* _splitnetloc: the netloc ends before the first of / ? #
netloc_end(rest) == 2 + FirstOfAny(Slice(rest, 3, Len(rest)), {"/", "?", "#"})

netloc_of(rest) == IF has_netloc(rest) THEN Slice(rest, 3, netloc_end(rest) - 1) ELSE ""

after_netloc(rest) == IF has_netloc(rest) THEN Slice(rest, netloc_end(rest), Len(rest)) ELSE rest

fragment_of(rest) ==
  LET hash == IndexOf(rest, "#") IN IF hash > 0 THEN Slice(rest, hash + 1, Len(rest)) ELSE ""

before_fragment(rest) ==
  LET hash == IndexOf(rest, "#") IN IF hash > 0 THEN Slice(rest, 1, hash - 1) ELSE rest

query_of(rest) ==
  LET qm == IndexOf(rest, "?") IN IF qm > 0 THEN Slice(rest, qm + 1, Len(rest)) ELSE ""

path_of(rest) ==
  LET qm == IndexOf(rest, "?") IN IF qm > 0 THEN Slice(rest, 1, qm - 1) ELSE rest

\* the hostname property: the netloc without user info and port, in lower case,
\* None when empty
hostname_of(netloc) ==
  LET hostinfo == Slice(netloc, LastIndexOf(netloc, "@") + 1, Len(netloc))
      portColon == IndexOf(hostinfo, ":")
      host == IF portColon > 0 THEN Slice(hostinfo, 1, portColon - 1) ELSE hostinfo
  IN IF host = "" THEN None ELSE Some(Lower(host))

urlparse(url) ==
  [scheme |-> Lower(Slice(url, 1, scheme_end(url) - 1)),
   netloc |-> netloc_of(after_scheme(url)),
   path |-> path_of(before_fragment(after_netloc(after_scheme(url)))),
   query |-> query_of(before_fragment(after_netloc(after_scheme(url)))),
   fragment |-> fragment_of(after_netloc(after_scheme(url))),
   hostname |-> hostname_of(netloc_of(after_scheme(url)))]

\* parse_qs(query).get(name, [None])[0]: the first non-blank value of the field
\* `name`; fields are separated by '&', blank values are dropped.
RECURSIVE FirstQueryValue(_, _)
FirstQueryValue(query, name) ==
  IF query = "" THEN None
  ELSE LET amp == IndexOf(query, "&")
           field == IF amp > 0 THEN Slice(query, 1, amp - 1) ELSE query
           rest == IF amp > 0 THEN Slice(query, amp + 1, Len(query)) ELSE ""
           eq == IndexOf(field, "=")
           key == PlusToSpace(Slice(field, 1, eq - 1))
           value == PlusToSpace(Slice(field, eq + 1, Len(field)))
       IN IF eq > 0 /\ value # "" /\ key = name THEN Some(value)
          ELSE FirstQueryValue(rest, name)

(***************************************************************************)
(* extract_video_id (src/main.py:33-54).  `'youtube.com' in parsed.hostname`*)
(* raises TypeError when the hostname is None; the except clause of line   *)
(* 51 catches it and the function returns None at line 54.                 *)
(***************************************************************************)
extract_video_id(url) ==
  LET parsed == urlparse(url) IN
  IF parsed.hostname = Some("youtu.be") THEN Some(Slice(parsed.path, 2, Len(parsed.path)))
  ELSE IF parsed.hostname = None THEN None
  ELSE IF Contains(parsed.hostname[1], "youtube.com") THEN FirstQueryValue(parsed.query, "v")
  ELSE IF re_match(url) THEN Some(url)
  ELSE None

\* `not x` of an Optional[str] or Optional[list]: None and the empty value are falsy.
falsy(x) == x = None \/ Len(x[1]) = 0

no_video_id_none_only(v) == v = None

\* `not video_id`, line 67
no_video_id(v) == falsy(v)

(***************************************************************************)
(* Bounds and inputs of the model.                                         *)
(***************************************************************************)
\* the longest transcript listing of a provider state
MaxListing == 2

\* the largest number of segments a fetch returns
MaxSegments == 1

\* the request bodies: `url` ...
Urls ==
  { "https://youtu.be/dQw4w9WgXcQ",
    "https://www.youtube.com/watch?v=dQw4w9WgXcQ",
    "abcdefghijk",
    "https://youtu.be/abc",
    "https://youtu.be/",
    "https://www.youtube.com/watch",
    "https://example.com/watch?v=dQw4w9WgXcQ",
    "https://www.youtube.com/watch?v=a+b" }

\* ... and `lang` (Optional[str], src/main.py:22): a sweep code that is first in
\* the sweep, one that is not, a code outside the sweep, and an explicit null.
Langs == {Some("en"), Some("es"), Some("xx"), None}

(***************************************************************************)
(* The transcript provider (youtube_transcript_api), an external library.  *)
(* A provider state is what list_transcripts answers for the video: an     *)
(* error text, or the listing, each transcript with its language code, its *)
(* is_generated flag and the outcome of its fetch().                       *)
(***************************************************************************)
UnavailableMarker == "Could not retrieve a transcript"

DisabledMarker == "TranscriptsDisabled"

\* texts of a failing list_transcripts call: without marker, with either, with both
ListErrorTexts ==
  { "connection reset",
    UnavailableMarker \o " for the video",
    DisabledMarker,
    DisabledMarker \o ": " \o UnavailableMarker \o " for the video" }

FetchErrorText == "fetch timed out"

\* str(NoTranscriptFound): the library's message starts with the unavailable marker
NoTranscriptFoundText ==
  UnavailableMarker \o " for the video: no transcripts were found for the requested language codes"

ProviderCodes == {"en", "es", "ar"}

Segment(k) ==
  [text |-> "line" \o CharAt(DigitChars, k + 1), start |-> k - 1, duration |-> 1]

Segments(n) == [k \in 1..n |-> Segment(k)]

Failed(text) == [ok |-> FALSE, text |-> text, data |-> <<>>]

Fetched(data) == [ok |-> TRUE, text |-> "", data |-> data]

FetchResults == {Failed(FetchErrorText)} \cup {Fetched(Segments(n)) : n \in 0..MaxSegments}

Transcripts == [language_code : ProviderCodes, is_generated : BOOLEAN, result : FetchResults]

\* listings of at most n transcripts
RECURSIVE Listings(_)
Listings(n) ==
  IF n = 0 THEN {<<>>}
  ELSE LET shorter == Listings(n - 1) IN
       shorter \cup
       { Append(l, t) : l \in {x \in shorter : Len(x) = n - 1},
                        t \in Transcripts }

\* one transcript per language code
DistinctTracks(l) == \A a, b \in 1..Len(l) : a # b => l[a].language_code # l[b].language_code

ProviderStates ==
  {[listed |-> FALSE, text |-> t, tracks |-> <<>>] : t \in ListErrorTexts}
  \cup {[listed |-> TRUE, text |-> "", tracks |-> l] : l \in {x \in Listings(MaxListing) : DistinctTracks(x)}}

(***************************************************************************)
(* The provider calls of one attempt.                                      *)
(***************************************************************************)
\* YouTubeTranscriptApi.list_transcripts(video_id)
list_transcripts(p) == IF p.listed THEN Fetched(p.tracks) ELSE Failed(p.text)

\* the positions of the listing whose transcript has the language code `code`
\* and the kind `generated`
Matching(tracks, code, generated) ==
  {k \in 1..Len(tracks) : Some(tracks[k].language_code) = code /\ tracks[k].is_generated = generated}

First(idx) == CHOOSE k \in idx : \A j \in idx : k <= j

\* transcript_list.find_transcript([code]): the library looks among the manually
\* created transcripts first, then among the generated ones
find_transcript(tracks, code) ==
  IF Matching(tracks, code, FALSE) # {} THEN Fetched(tracks[First(Matching(tracks, code, FALSE))])
  ELSE IF Matching(tracks, code, TRUE) # {} THEN Fetched(tracks[First(Matching(tracks, code, TRUE))])
  ELSE Failed(NoTranscriptFoundText)

\* transcript.fetch()
fetch(t) == t.result

NoCalls == [list |-> 0, find |-> 0, fetch |-> 0]

\* list_transcripts, find_transcript([code]) and fetch in sequence (lines 78-80
\* and 125-127); the first failing call ends the attempt with its error text.
\* `made` counts the provider calls the attempt made.
ExactLanguageAttempt(p, code) ==
  LET listing == list_transcripts(p)
      found == find_transcript(listing.data, code)
      got == fetch(found.data)
  IN IF ~listing.ok THEN [ok |-> FALSE, text |-> listing.text, data |-> <<>>,
                          made |-> [list |-> 1, find |-> 0, fetch |-> 0]]
     ELSE IF ~found.ok THEN [ok |-> FALSE, text |-> found.text, data |-> <<>>,
                             made |-> [list |-> 1, find |-> 1, fetch |-> 0]]
     ELSE [ok |-> got.ok, text |-> got.text, data |-> got.data,
           made |-> [list |-> 1, find |-> 1, fetch |-> 1]]

SelectFirstListed(available_transcripts) == available_transcripts[1]

\* lines 98-102: the first manually created transcript, else the first of the listing
SelectAvailable(available_transcripts) ==
  LET manual_transcripts == {k \in 1..Len(available_transcripts) :
                               ~available_transcripts[k].is_generated}
  IN IF manual_transcripts # {} THEN available_transcripts[First(manual_transcripts)]
     ELSE available_transcripts[1]

\* lines 92-111: list, select, fetch; `code` is the language_code of the selected transcript
AnyAvailableAttempt(p) ==
  LET listing == list_transcripts(p)
      transcript == SelectAvailable(listing.data)
      got == fetch(transcript)
  IN IF ~listing.ok THEN [ok |-> FALSE, text |-> listing.text, data |-> <<>>, code |-> "",
                          made |-> [list |-> 1, find |-> 0, fetch |-> 0]]
     ELSE IF listing.data = <<>>
          THEN [ok |-> FALSE, text |-> "No transcripts available", data |-> <<>>, code |-> "",
                made |-> [list |-> 1, find |-> 0, fetch |-> 0]]
     ELSE [ok |-> got.ok, text |-> got.text, data |-> got.data,
           code |-> transcript.language_code,
           made |-> [list |-> 1, find |-> 0, fetch |-> 1]]

language_assigned_before_fetch(cur, r) ==
  IF r.made.fetch = 1 THEN Some(r.code) ELSE cur

\* line 105 is reached only when the fetch of line 104 returned: an attempt of
\* Method 2 that failed leaves actual_language as it was
language_after_failed_fetch(cur, r) == cur

AddCalls(c, made) ==
  [list |-> c.list + made.list, find |-> c.find + made.find, fetch |-> c.fetch + made.fetch]

(***************************************************************************)
(* Attempt-log entries (lines 81, 86, 106, 114, 129, 134) and responses.   *)
(***************************************************************************)
SuccessEntry(tag) == tag \o " (success)"

FailedEntryWithoutText(tag, text) == tag \o " (failed)"

FailedEntry(tag, text) == tag \o " (failed: " \o text \o ")"

SweepFailedEntry(tag) == tag \o " (failed)"

common_languages_swapped ==
  <<"en", "fr", "es", "de", "it", "pt", "ru", "ja", "ko", "zh", "hi", "ar">>

\* line 118
common_languages == <<"en", "es", "fr", "de", "it", "pt", "ru", "ja", "ko", "zh", "hi", "ar">>

already_tried_never(test_lang, requested) == FALSE

\* `test_lang == request.lang`, line 120
already_tried(test_lang, requested) == Some(test_lang) = requested

\* line 138
AllFailedMessage(attempts) == "All methods failed. Attempted: " \o Join(attempts, ", ")

NoResponse == [status |-> 0, body |-> [none |-> TRUE]]

\* line 68
InvalidUrlResponse == [status |-> 400, body |-> [detail |-> "Invalid YouTube URL"]]

\* lines 150-159
NoSegmentsResponse(vid, attempts) ==
  [status |-> 404,
   body |-> [error |-> "No transcript found for this video",
             details |-> "No transcript segments available",
             videoId |-> vid,
             attemptedMethods |-> attempts]]

\* lines 192-227: the boundary classifies the error by its text
ErrorResponse(errorType, text, vid) ==
  IF Contains(text, UnavailableMarker)
  THEN [status |-> 404,
        body |-> [error |-> "No transcript available for this video",
                  details |-> "This video does not have captions/subtitles available",
                  videoId |-> vid]]
  ELSE IF Contains(text, DisabledMarker)
  THEN [status |-> 404,
        body |-> [error |-> "Transcripts are disabled for this video",
                  details |-> "The video owner has disabled captions/subtitles",
                  videoId |-> vid]]
  ELSE [status |-> 500,
        body |-> [error |-> "Failed to fetch transcript",
                  details |-> text,
                  videoId |-> vid,
                  errorType |-> errorType]]

SuccessResponseEchoingRequest(vid, data, language, requested, attempts) ==
  [status |-> 200,
   body |-> [transcript |-> Join([k \in 1..Len(data) |-> data[k].text], " "),
             raw |-> [k \in 1..Len(data) |->
                        [text |-> data[k].text, start |-> data[k].start,
                         duration |-> data[k].duration]],
             segmentCount |-> Len(data),
             videoId |-> vid,
             language |-> requested,
             requestedLanguage |-> requested,
             attemptedMethods |-> attempts]]

\* lines 162-188
SuccessResponse(vid, data, language, requested, attempts) ==
  [status |-> 200,
   body |-> [transcript |-> Join([k \in 1..Len(data) |-> data[k].text], " "),
             raw |-> [k \in 1..Len(data) |->
                        [text |-> data[k].text, start |-> data[k].start,
                         duration |-> data[k].duration]],
             segmentCount |-> Len(data),
             videoId |-> vid,
             language |-> language,
             requestedLanguage |-> requested,
             attemptedMethods |-> attempts]]

\* str of the pydantic error of a None in a `str` field of TranscriptResponse
ValidationErrorText == "1 validation error for TranscriptResponse"

(***************************************************************************)
(* State: the request, the provider, and the locals of get_transcript.     *)
(***************************************************************************)
VARIABLES
  url,               \* request.url
  lang,              \* request.lang
  provider,          \* the provider's state for the video
  run,               \* 1 for the first call with these inputs, 2 for the second
  prev,              \* what the first call ended with
  pc,                \* the position in get_transcript
  video_id,          \* line 60
  transcript_data,   \* line 70
  actual_language,   \* line 71
  attempted_methods, \* line 72
  test_idx,          \* the position of the loop of line 119 in common_languages
  error,             \* the exception bound by `except Exception as error`, line 192
  calls,             \* the provider calls made for the request
  response,          \* the HTTP response of the request
  current,           \* the invocation whose frame the variables above hold
  peer,              \* the frame of the other invocation, None when there is none
  overlapped         \* the two invocations were both under way at some switch

vars == <<url, lang, provider, run, prev, pc, video_id, transcript_data, actual_language,
          attempted_methods, test_idx, error, calls, response, current, peer, overlapped>>

request == <<url, lang, provider>>

scheduling == <<current, peer, overlapped>>

NoError == [type |-> "", text |-> ""]

after_method1_success_falls_through == "method2"

\* after line 83 control leaves the try statement of line 76 for line 140
after_method1_success == "final"

after_sweep_success_continues(next_pc) == "method3"

\* `break`, line 131: the loop ends at the first success
after_sweep_success(next_pc) == "after_sweep"

same_test_idx(i) == i

\* the `for` of line 119 moves on to the next code
next_test_idx(i) == i + 1

kept_attempted_methods == attempted_methods

\* `attempted_methods = []`, line 72: a new list for every call
new_attempted_methods == <<>>

Init ==
  /\ url \in Urls
  /\ lang \in Langs
  /\ provider \in ProviderStates
  /\ run = 1
  /\ prev = None
  /\ pc = "start"
  /\ video_id = None
  /\ transcript_data = None
  /\ actual_language = None
  /\ attempted_methods = <<>>
  /\ test_idx = 0
  /\ error = NoError
  /\ calls = NoCalls
  /\ response = NoResponse
  /\ current = "a"
  /\ peer = None
  /\ overlapped = FALSE

\* lines 60-72
ExtractVideoId ==
  /\ pc = "start"
  /\ video_id' = extract_video_id(url)
  /\ IF no_video_id(video_id')
     THEN /\ response' = InvalidUrlResponse
          /\ pc' = "done"
          /\ UNCHANGED <<transcript_data, actual_language, attempted_methods>>
     ELSE /\ transcript_data' = None
          /\ actual_language' = lang
          /\ attempted_methods' = new_attempted_methods
          /\ pc' = "method1"
          /\ UNCHANGED response
  /\ UNCHANGED <<request, scheduling, run, prev, test_idx, error, calls>>

Method1Surfacing ==
  /\ pc = "method1"
  /\ LET r == ExactLanguageAttempt(provider, lang) IN
     /\ calls' = AddCalls(calls, r.made)
     /\ IF r.ok
        THEN /\ transcript_data' = Some(r.data)
             /\ attempted_methods' = Append(attempted_methods, SuccessEntry(Fmt(lang)))
             /\ pc' = "final"
             /\ UNCHANGED <<error, response>>
        ELSE /\ error' = [type |-> "Exception", text |-> r.text]
             /\ response' = ErrorResponse(error'.type, error'.text, video_id[1])
             /\ pc' = "done"
             /\ UNCHANGED <<transcript_data, attempted_methods>>
  /\ UNCHANGED <<request, scheduling, run, prev, video_id, actual_language, test_idx>>

\* lines 76-87
Method1 ==
  /\ pc = "method1"
  /\ LET r == ExactLanguageAttempt(provider, lang) IN
     /\ calls' = AddCalls(calls, r.made)
     /\ IF r.ok
        THEN /\ transcript_data' = Some(r.data)
             /\ attempted_methods' = Append(attempted_methods, SuccessEntry(Fmt(lang)))
             /\ pc' = after_method1_success
        ELSE /\ attempted_methods' = Append(attempted_methods, FailedEntry(Fmt(lang), r.text))
             /\ pc' = "method2"
             /\ UNCHANGED transcript_data
  /\ UNCHANGED <<request, scheduling, run, prev, video_id, actual_language, test_idx, error, response>>

\* lines 90-118
Method2 ==
  /\ pc = "method2"
  /\ LET r == AnyAvailableAttempt(provider) IN
     /\ calls' = AddCalls(calls, r.made)
     /\ IF r.ok
        THEN /\ transcript_data' = Some(r.data)
             /\ actual_language' = Some(r.code)
             /\ attempted_methods' = Append(attempted_methods, SuccessEntry(r.code))
             /\ pc' = "final"
             /\ UNCHANGED test_idx
        ELSE /\ attempted_methods' = Append(attempted_methods, FailedEntry("auto-detect", r.text))
             /\ pc' = "method3"
             /\ test_idx' = 1
             /\ actual_language' = language_after_failed_fetch(actual_language, r)
             /\ UNCHANGED transcript_data
  /\ UNCHANGED <<request, scheduling, run, prev, video_id, error, response>>

\* lines 119-135, one iteration of the loop
Method3 ==
  /\ pc = "method3"
  /\ LET test_lang == common_languages[test_idx]
         r == ExactLanguageAttempt(provider, Some(test_lang))
         next_pc == IF test_idx = Len(common_languages) THEN "after_sweep" ELSE "method3"
     IN IF already_tried(test_lang, lang)
        THEN /\ test_idx' = next_test_idx(test_idx)
             /\ pc' = next_pc
             /\ UNCHANGED <<transcript_data, actual_language, attempted_methods, calls>>
        ELSE /\ calls' = AddCalls(calls, r.made)
             /\ IF r.ok
                THEN /\ transcript_data' = Some(r.data)
                     /\ actual_language' = Some(test_lang)
                     /\ attempted_methods' = Append(attempted_methods, SuccessEntry(test_lang))
                     /\ pc' = after_sweep_success(next_pc)
                     /\ UNCHANGED test_idx
                ELSE /\ attempted_methods' = Append(attempted_methods, SweepFailedEntry(test_lang))
                     /\ test_idx' = next_test_idx(test_idx)
                     /\ pc' = next_pc
                     /\ UNCHANGED <<transcript_data, actual_language>>
  /\ UNCHANGED <<request, scheduling, run, prev, video_id, error, response>>

\* lines 137-138, and the boundary (lines 192-227) for the exception of line 138
AfterSweep ==
  /\ pc = "after_sweep"
  /\ IF falsy(transcript_data)
     THEN /\ error' = [type |-> "Exception", text |-> AllFailedMessage(attempted_methods)]
          /\ response' = ErrorResponse(error'.type, error'.text, video_id[1])
          /\ pc' = "done"
     ELSE /\ pc' = "final"
          /\ UNCHANGED <<error, response>>
  /\ UNCHANGED <<request, scheduling, run, prev, video_id, transcript_data, actual_language,
                 attempted_methods, test_idx, calls>>

\* lines 140-188, and the boundary for the validation error of TranscriptResponse
\* (language and requestedLanguage are `str` fields, lines 29-30)
Final ==
  /\ pc = "final"
  /\ IF falsy(transcript_data)
     THEN /\ response' = NoSegmentsResponse(video_id[1], attempted_methods)
          /\ UNCHANGED error
     ELSE IF actual_language = None \/ lang = None
     THEN /\ error' = [type |-> "ValidationError", text |-> ValidationErrorText]
          /\ response' = ErrorResponse(error'.type, error'.text, video_id[1])
     ELSE /\ response' = SuccessResponse(video_id[1], transcript_data[1], actual_language[1],
                                         lang[1], attempted_methods)
          /\ UNCHANGED error
  /\ pc' = "done"
  /\ UNCHANGED <<request, scheduling, run, prev, video_id, transcript_data, actual_language,
                 attempted_methods, test_idx, calls>>

\* The same request is sent a second time, against the same provider state.
\* The locals of the new call are unbound until lines 60 and 70-72 assign them;
\* their variables are left as they are and no action reads them before that.
SecondCall ==
  /\ pc = "done"
  /\ run = 1
  /\ run' = 2
  /\ prev' = Some([response |-> response, error |-> error,
                   transcript_data |-> transcript_data,
                   actual_language |-> actual_language,
                   attempted_methods |-> attempted_methods])
  /\ pc' = "start"
  /\ test_idx' = 0
  /\ error' = NoError
  /\ calls' = NoCalls
  /\ response' = NoResponse
  /\ UNCHANGED <<request, scheduling, video_id, transcript_data, actual_language, attempted_methods>>

Next ==
  \/ ExtractVideoId
  \/ Method1
  \/ Method2
  \/ Method3
  \/ AfterSweep
  \/ Final
  \/ SecondCall

Spec == Init /\ [][Next]_vars

(***************************************************************************)
(* Two invocations of get_transcript.  Every name that lines 60-72 bind is *)
(* a local of one invocation, so an invocation is a frame of its own.  The *)
(* first request is answered alone, then sent again while a second request *)
(* is served; the running invocation can be suspended between calls and    *)
(* before each provider call.                                              *)
(***************************************************************************)
MaxConcurrentListing == 1

ConcurrentUrls == {"https://youtu.be/dQw4w9WgXcQ", "https://youtu.be/"}

ConcurrentLangs == {Some("en"), Some("xx")}

ConcurrentProviderStates ==
  {p \in ProviderStates : Len(p.tracks) <= MaxConcurrentListing}

PeerProviderStates ==
  { [listed |-> FALSE, text |-> "connection reset", tracks |-> <<>>],
    [listed |-> TRUE, text |-> "",
     tracks |-> <<[language_code |-> "es", is_generated |-> FALSE,
                   result |-> Fetched(Segments(1))]>>],
    [listed |-> TRUE, text |-> "",
     tracks |-> <<[language_code |-> "en", is_generated |-> TRUE,
                   result |-> Failed(FetchErrorText)]>>] }

\* the request and the locals of the running invocation
Frame ==
  [url |-> url, lang |-> lang, provider |-> provider, pc |-> pc, video_id |-> video_id,
   transcript_data |-> transcript_data, actual_language |-> actual_language,
   attempted_methods |-> attempted_methods, test_idx |-> test_idx, error |-> error,
   calls |-> calls, response |-> response]

\* an invocation that has not run yet
StartFrame(u, l, p) ==
  [url |-> u, lang |-> l, provider |-> p, pc |-> "start", video_id |-> None,
   transcript_data |-> None, actual_language |-> None, attempted_methods |-> <<>>,
   test_idx |-> 0, error |-> NoError, calls |-> NoCalls, response |-> NoResponse]

UnderWay(f) == f.pc \notin {"start", "done"}

shared_attempted_methods(frame) == attempted_methods

\* line 72 binds the list to a local name: each invocation has its own
own_attempted_methods(frame) == frame.attempted_methods

\* where the running invocation can be suspended
SwitchPoints == {"start", "method1", "method2", "method3", "done"}

\* the running invocation is suspended and the other one resumed
Switch ==
  /\ run = 2
  /\ peer # None
  /\ pc \in SwitchPoints
  /\ peer' = Some(Frame)
  /\ current' = (IF current = "a" THEN "b" ELSE "a")
  /\ overlapped' = (overlapped \/ (UnderWay(Frame) /\ UnderWay(peer[1])))
  /\ url' = peer[1].url
  /\ lang' = peer[1].lang
  /\ provider' = peer[1].provider
  /\ pc' = peer[1].pc
  /\ video_id' = peer[1].video_id
  /\ transcript_data' = peer[1].transcript_data
  /\ actual_language' = peer[1].actual_language
  /\ attempted_methods' = own_attempted_methods(peer[1])
  /\ test_idx' = peer[1].test_idx
  /\ error' = peer[1].error
  /\ calls' = peer[1].calls
  /\ response' = peer[1].response
  /\ UNCHANGED <<run, prev>>

InitConcurrent ==
  /\ url \in ConcurrentUrls
  /\ lang \in ConcurrentLangs
  /\ provider \in ConcurrentProviderStates
  /\ run = 1
  /\ prev = None
  /\ pc = "start"
  /\ video_id = None
  /\ transcript_data = None
  /\ actual_language = None
  /\ attempted_methods = <<>>
  /\ test_idx = 0
  /\ error = NoError
  /\ calls = NoCalls
  /\ response = NoResponse
  /\ current = "a"
  /\ peer \in {Some(StartFrame("https://www.youtube.com/watch?v=dQw4w9WgXcQ", Some("es"), p)) :
                 p \in PeerProviderStates}
  /\ overlapped = FALSE

NextConcurrent ==
  \/ Next
  \/ Switch

SpecConcurrent == InitConcurrent /\ [][NextConcurrent]_vars

(***************************************************************************)
(* Properties.                                                             *)
(***************************************************************************)
EndsWith(s, suffix) ==
  Len(s) >= Len(suffix) /\ Slice(s, Len(s) - Len(suffix) + 1, Len(s)) = suffix

\* an entry of the attempt log records a success
IsSuccess(entry) == EndsWith(entry, " (success)")

\* the language tag of an entry of the attempt log
Tag(entry) == Slice(entry, 1, IndexOf(entry, " (") - 1)

IsPrefix(a, b) == Len(a) <= Len(b) /\ SubSeq(b, 1, Len(a)) = a

\* the call is over, the reference was valid, and no attempt succeeded
AllAttemptsFailed ==
  /\ pc = "done"
  /\ response.status # 400
  /\ \A k \in 1..Len(attempted_methods) : ~IsSuccess(attempted_methods[k])

\* the call ended with the exception of line 138
RaisedAllFailed ==
  /\ pc = "done"
  /\ error.type = "Exception"
  /\ Slice(error.text, 1, 19) = "All methods failed."

\* the order of the sweep, as the specification lists it
SweepOrder == <<"en", "es", "fr", "de", "it", "pt", "ru", "ja", "ko", "zh", "hi", "ar">>

NotRequested(code) == Some(code) # lang

Tags(entries) == [k \in 1..Len(entries) |-> Tag(entries[k])]

\* C1: an input that itself matches [A-Za-z0-9_-]{11} is returned verbatim by
\* extract_video_id, and the request is not rejected with 400.
C1_BareIdentifierAccepted ==
  (pc # "start" /\ MatchesIdPattern(url)) =>
     (video_id = Some(url) /\ response.status # 400)

\* C2: when Method 1, Method 2 and every code of the sweep fail, the response
\* is 404 and its body carries the attempt log as attemptedMethods.
C2_ExhaustedIs404WithTrail ==
  AllAttemptsFailed =>
     /\ response.status = 404
     /\ "attemptedMethods" \in DOMAIN response.body
     /\ response.body.attemptedMethods = attempted_methods

\* C3: when the fetch that set transcript_data returned no segments, in whichever
\* method, the response is the 404 "No transcript segments available" with
\* attemptedMethods.
C3_EmptyResultIsNoSegments404 ==
  (pc = "done" /\ response.status # 400 /\ transcript_data = Some(<<>>)) =>
     /\ response.status = 404
     /\ response.body.details = "No transcript segments available"
     /\ "attemptedMethods" \in DOMAIN response.body

\* C4: when extract_video_id yields None or the empty string, the request ends
\* with 400, no provider call is made and the attempt log stays empty.
C4_InvalidReferenceNoProviderCall ==
  (pc # "start" /\ (video_id = None \/ video_id = Some(""))) =>
     /\ pc = "done"
     /\ response.status = 400
     /\ calls = NoCalls
     /\ attempted_methods = <<>>

C4_Witness ==
  /\ pc = "done"
  /\ video_id = Some("")
  /\ response.status = 400

\* a failed attempt of the current method leaves no response and no error, adds
\* one entry to the attempt log and moves on to the next method or code
ContainedStep ==
  LET contained == /\ response' = NoResponse
                   /\ error' = NoError
                   /\ Len(attempted_methods') = Len(attempted_methods) + 1
                   /\ ~IsSuccess(attempted_methods'[Len(attempted_methods')])
  IN /\ (pc = "method1" /\ ~ExactLanguageAttempt(provider, lang).ok)
          => (contained /\ pc' = "method2")
     /\ (pc = "method2" /\ ~AnyAvailableAttempt(provider).ok)
          => (contained /\ pc' = "method3")
     /\ (/\ pc = "method3"
         /\ NotRequested(SweepOrder[test_idx])
         /\ ~ExactLanguageAttempt(provider, Some(SweepOrder[test_idx])).ok)
          => (contained /\ test_idx' = test_idx + 1 /\ pc' \in {"method3", "after_sweep"})

\* C5: a provider failure inside a method is recorded in the attempt log and the
\* resolution continues; every request ends with one of 200, 400, 404, 500.
C5_FailureContained ==
  /\ [](pc = "done" => response.status \in {200, 400, 404, 500})
  /\ [][ContainedStep]_vars

C5_Witness ==
  /\ pc = "done"
  /\ response.status = 200
  /\ Len(attempted_methods) = 4

\* C6: when the call ends with "All methods failed" the attempt log is not
\* empty, its first entry is the one of the requested language, its second the
\* auto-detect one, and the rest follow the sweep order without the requested
\* language (all of them when every attempt failed); within a call the log only
\* grows at its end.
C6_AttemptLogOrder ==
  /\ [](RaisedAllFailed =>
          /\ Len(attempted_methods) >= 2
          /\ Tag(attempted_methods[1]) = Fmt(lang)
          /\ Tag(attempted_methods[2]) = "auto-detect"
          /\ IsPrefix(SubSeq(Tags(attempted_methods), 3, Len(attempted_methods)),
                      SelectSeq(SweepOrder, NotRequested)))
  /\ [](AllAttemptsFailed =>
          /\ RaisedAllFailed
          /\ SubSeq(Tags(attempted_methods), 3, Len(attempted_methods))
               = SelectSeq(SweepOrder, NotRequested))
  /\ [][pc # "start" => IsPrefix(attempted_methods, attempted_methods')]_vars

C6_Witness ==
  /\ AllAttemptsFailed
  /\ lang = Some("es")
  /\ Tag(attempted_methods[4]) = "fr"

\* C7: when every attempt fails the attempt log has 13 entries if the requested
\* language is one of the 12 sweep codes and 14 otherwise, and no two entries
\* carry the same tag.
C7_AttemptCount ==
  AllAttemptsFailed =>
     /\ Len(attempted_methods) =
          (IF \E k \in 1..Len(SweepOrder) : Some(SweepOrder[k]) = lang THEN 13 ELSE 14)
     /\ \A a, b \in 1..Len(attempted_methods) :
           a # b => Tag(attempted_methods[a]) # Tag(attempted_methods[b])

C7_Witness ==
  /\ AllAttemptsFailed
  /\ lang = Some("en")
  /\ Len(attempted_methods) = 13

\* C8: an error text at the boundary that contains the disabled marker gets the
\* 404 "Transcripts are disabled for this video", one that contains the
\* unavailable marker the 404 "No transcript available for this video", also
\* when it contains both.
C8_EachMarkerOwnExplanation ==
  (pc = "done" /\ error # NoError) =>
     /\ Contains(error.text, DisabledMarker) =>
          (response.status = 404
             /\ response.body.error = "Transcripts are disabled for this video")
     /\ Contains(error.text, UnavailableMarker) =>
          (response.status = 404
             /\ response.body.error = "No transcript available for this video")

\* C9: the second call, with the same request and the same provider state, ends
\* with the same response, error, segments, language and attempt log as the first.
C9_Deterministic ==
  (run = 2 /\ pc = "done") =>
     prev = Some([response |-> response, error |-> error,
                  transcript_data |-> transcript_data,
                  actual_language |-> actual_language,
                  attempted_methods |-> attempted_methods])

C9_Witness ==
  /\ run = 2
  /\ pc = "done"
  /\ response.status = 200
  /\ Len(provider.tracks) = 2
  /\ Len(attempted_methods) > 1

\* C10: every identifier extract_video_id returns matches [A-Za-z0-9_-]{11}.
C10_VideoIdMatchesPattern ==
  (pc # "start" /\ video_id # None) => MatchesIdPattern(video_id[1])

\* some entry of the attempt log records a success
HasSuccess == \E k \in 1..Len(attempted_methods) : IsSuccess(attempted_methods[k])

\* the step calls the provider
ProviderCalled == calls' # calls /\ run' = run

\* the order of the positions of get_transcript
PcRank ==
  CASE pc = "start" -> 0
    [] pc = "method1" -> 1
    [] pc = "method2" -> 2
    [] pc = "method3" -> 3
    [] pc = "after_sweep" -> 4
    [] pc = "final" -> 5
    [] pc = "done" -> 6

GatedStep ==
  /\ run' = run => PcRank' >= PcRank
  /\ (ProviderCalled /\ pc = "method1") => attempted_methods = <<>>
  /\ (ProviderCalled /\ pc = "method2") =>
        (Len(attempted_methods) = 1 /\ ~HasSuccess)
  /\ (ProviderCalled /\ pc = "method3") =>
        (/\ Len(attempted_methods) >= 2
         /\ Tag(attempted_methods[2]) = "auto-detect"
         /\ ~HasSuccess)
  /\ ProviderCalled => pc \in {"method1", "method2", "method3"}
  /\ (HasSuccess /\ pc # "start" /\ run' = run) => calls' = calls

\* C11: the methods run in the order 1, 2, 3; Method 2 calls the provider only
\* after Method 1 recorded a failure, Method 3 only after Method 2 recorded a
\* failure, and after the first successful fetch no further provider call is made.
C11_StrategyGating == [][GatedStep]_vars

C11_Witness ==
  /\ pc = "done"
  /\ response.status = 200
  /\ Len(attempted_methods) = 3
  /\ calls = [list |-> 3, find |-> 2, fetch |-> 2]

\* the transcript the specification has Method 2 select from a listing that is
\* not empty: the first that is not generated, else the first
BestAvailable(listing) ==
  LET manual == {k \in 1..Len(listing) : ~listing[k].is_generated}
  IN IF manual = {} THEN listing[1]
     ELSE listing[CHOOSE k \in manual : \A j \in manual : k <= j]

SelectionStep ==
  (pc = "method2" /\ provider.listed /\ provider.tracks # <<>>) =>
     LET chosen == BestAvailable(provider.tracks) IN
     /\ Len(attempted_methods) = 1
     /\ ~IsSuccess(attempted_methods[1])
     /\ calls'.fetch = calls.fetch + 1
     /\ chosen.result.ok =>
          /\ transcript_data' = Some(chosen.result.data)
          /\ actual_language' = Some(chosen.language_code)
          /\ attempted_methods' =
               <<attempted_methods[1], chosen.language_code \o " (success)">>
          /\ pc' = "final"
     /\ ~chosen.result.ok => transcript_data' = None

\* C12: with Method 1 failed and a listing that is not empty, Method 2 fetches
\* the first transcript that is not generated, else the first one; when that
\* fetch succeeds the language used is the transcript's own code and the attempt
\* log is one failure followed by one success tagged with that code.
C12_BestAvailableSelection ==
  /\ [][SelectionStep]_vars
  /\ [](( /\ pc = "done"
          /\ response.status = 200
          /\ Len(attempted_methods) = 2)
        => response.body.language = BestAvailable(provider.tracks).language_code)

\* only a Spanish generated transcript, requested language en
C12_Witness ==
  /\ pc = "done"
  /\ lang = Some("en")
  /\ Len(provider.tracks) = 1
  /\ provider.tracks[1].language_code = "es"
  /\ provider.tracks[1].is_generated
  /\ response.status = 200
  /\ response.body.language = "es"
  /\ attempted_methods[2] = "es (success)"

ExactLanguageStep ==
  pc = "method1" =>
     LET r == ExactLanguageAttempt(provider, lang) IN
     /\ r.ok =>
          /\ attempted_methods' = <<Fmt(lang) \o " (success)">>
          /\ actual_language' = lang
          /\ transcript_data' = Some(r.data)
          /\ pc' = "final"
     /\ ~r.ok =>
          /\ attempted_methods' = <<Fmt(lang) \o " (failed: " \o r.text \o ")">>
          /\ r.text # ""
          /\ transcript_data' = None
          /\ pc' = "method2"

\* C13: when listing, selection and fetch succeed for the requested language the
\* engine ends with that language and an attempt log of one success entry tagged
\* with it; on a failure of any of the three it records one failure entry tagged
\* with the requested language that carries the error text, and goes on to
\* Method 2.
C13_ExactLanguageOutcome ==
  /\ [][ExactLanguageStep]_vars
  /\ [](( /\ pc = "done"
          /\ response.status # 400
          /\ IsSuccess(attempted_methods[1]))
        => (/\ Len(attempted_methods) = 1
            /\ Tag(attempted_methods[1]) = Fmt(lang)
            /\ actual_language = lang
            /\ calls = [list |-> 1, find |-> 1, fetch |-> 1]))

C13_Witness ==
  /\ pc = "method2"
  /\ lang = Some("es")
  /\ attempted_methods = <<"es (failed: fetch timed out)">>

\* why Method 2 fails in the provider state: "" when it does not fail
Method2FailureText ==
  IF ~provider.listed THEN provider.text
  ELSE IF provider.tracks = <<>> THEN "No transcripts available"
  ELSE IF ~BestAvailable(provider.tracks).result.ok
       THEN BestAvailable(provider.tracks).result.text
  ELSE ""

BestAvailableFailureStep ==
  (pc = "method2" /\ Method2FailureText # "") =>
     /\ attempted_methods' =
          Append(attempted_methods, "auto-detect (failed: " \o Method2FailureText \o ")")
     /\ actual_language' = actual_language
     /\ actual_language' = lang
     /\ transcript_data' = None
     /\ pc' = "method3"

\* C14: whether Method 2 fails at the listing call, on an empty listing or at
\* the fetch of the chosen transcript, exactly one failure entry tagged
\* auto-detect is appended, the language stays the requested one, and the
\* engine goes on to the sweep.
C14_BestAvailableFailure == [][BestAvailableFailureStep]_vars

\* the fetch of the chosen transcript failed
C14_Witness ==
  /\ pc = "method3"
  /\ test_idx = 1
  /\ Len(provider.tracks) = 2
  /\ attempted_methods[2] = "auto-detect (failed: fetch timed out)"
  /\ actual_language = lang


\* the provider lists a transcript of the code whose fetch returns
SweepFetchOk(code) ==
  /\ provider.listed
  /\ \E k \in 1..Len(provider.tracks) :
        /\ provider.tracks[k].language_code = code
        /\ provider.tracks[k].result.ok

SweepStep ==
  /\ pc = "method3" =>
       LET code == SweepOrder[test_idx]
           last == attempted_methods'[Len(attempted_methods')]
       IN /\ Some(code) = lang =>
               (attempted_methods' = attempted_methods /\ calls' = calls)
          /\ (Some(code) # lang /\ ~SweepFetchOk(code)) =>
               /\ Len(attempted_methods') = Len(attempted_methods) + 1
               /\ IsPrefix(attempted_methods, attempted_methods')
               /\ Tag(last) = code
               /\ ~IsSuccess(last)
               /\ actual_language' = actual_language
               /\ calls'.list = calls.list + 1
               /\ IF test_idx < 12 THEN pc' = "method3" /\ test_idx' = test_idx + 1
                  ELSE pc' = "after_sweep"
          /\ (Some(code) # lang /\ SweepFetchOk(code)) =>
               /\ attempted_methods' = Append(attempted_methods, code \o " (success)")
               /\ actual_language' = Some(code)
               /\ transcript_data' # None
               /\ calls'.fetch = calls.fetch + 1
               /\ pc' = "after_sweep"
  /\ pc = "after_sweep" =>
       /\ attempted_methods' = attempted_methods
       /\ actual_language' = actual_language
       /\ calls' = calls
       /\ pc' \in {"final", "done"}

\* the tags of the entries the sweep has appended so far
SweepTags == SubSeq(Tags(attempted_methods), 3, Len(attempted_methods))

\* C15: the sweep makes no attempt for the requested language; it tries the
\* other codes of en, es, fr, de, it, pt, ru, ja, ko, zh, hi, ar in that order,
\* one failure entry per code that does not succeed; at the first code whose
\* fetch returns it appends the success entry of that code, sets
\* actual_language to it and leaves the loop, and no later code is attempted.
C15_SweepStopsAtFirstSuccess ==
  /\ [][SweepStep]_vars
  /\ [](pc = "method3" =>
          /\ ~HasSuccess
          /\ SweepTags = SelectSeq(SubSeq(SweepOrder, 1, test_idx - 1), NotRequested))
  /\ []((pc \in {"after_sweep", "final", "done"} /\ Len(attempted_methods) >= 3) =>
          /\ IsPrefix(SweepTags, SelectSeq(SweepOrder, NotRequested))
          /\ \A k \in 3..(Len(attempted_methods) - 1) : ~IsSuccess(attempted_methods[k])
          /\ HasSuccess => actual_language = Some(Tag(attempted_methods[Len(attempted_methods)])))

\* the sweep failed for en and stopped at es
C15_Witness ==
  /\ pc = "after_sweep"
  /\ lang = Some("xx")
  /\ Len(attempted_methods) = 4
  /\ attempted_methods[4] = "es (success)"
  /\ actual_language = Some("es")
  /\ calls.fetch = 3


\* an entry of the attempt log gives a reason: "<tag> (failed: <reason>)"
HasReason(entry) ==
  /\ Contains(entry, " (failed: ")
  /\ EndsWith(entry, ")")
  /\ Len(entry) > Len(Tag(entry)) + Len(" (failed: ") + 1

\* C16: every failure entry of the attempt log, those of the sweep included,
\* carries the text of the failure that caused it, as "<lang> (failed: <reason>)".
C16_FailureEntriesCarryReason ==
  \A k \in 1..Len(attempted_methods) :
     ~IsSuccess(attempted_methods[k]) => HasReason(attempted_methods[k])


\* C18: on every 200 response the attempt log is not empty, its last entry is
\* a success and the only one, every earlier entry is a failure, the field
\* language is the tag of the last entry, requestedLanguage is the lang of the
\* request, and segmentCount is the length of raw, which is not zero.
C18_SuccessResponseShape ==
  (pc = "done" /\ response.status = 200) =>
     LET log == response.body.attemptedMethods
         n == Len(log)
     IN /\ log = attempted_methods
        /\ n > 0
        /\ IsSuccess(log[n])
        /\ \A k \in 1..(n - 1) : ~IsSuccess(log[k])
        /\ response.body.language = Tag(log[n])
        /\ Some(response.body.requestedLanguage) = lang
        /\ response.body.segmentCount = Len(response.body.raw)
        /\ response.body.segmentCount > 0

\* a 200 whose language was found by the sweep and is not the requested one
C18_Witness ==
  /\ pc = "done"
  /\ response.status = 200
  /\ Len(attempted_methods) = 3
  /\ response.body.language # response.body.requestedLanguage


\* C19: whenever the call ends with the "All methods failed" exception, every
\* entry of the attempt log is a failure.
C19_AllFailedLogHasNoSuccess ==
  RaisedAllFailed =>
     \A k \in 1..Len(attempted_methods) : ~IsSuccess(attempted_methods[k])


\* how many steps of get_transcript can still follow the position
Remaining ==
  CASE pc = "start" -> 18
    [] pc = "method1" -> 17
    [] pc = "method2" -> 16
    [] pc = "method3" -> 15 - test_idx
    [] pc = "after_sweep" -> 2
    [] pc = "final" -> 1
    [] pc = "done" -> 0

\* a call past line 60 that has not ended can take its next step
\* (ExtractVideoId has no guard but its position)
CanStep ==
  pc \notin {"start", "done"} =>
     ENABLED (Method1 \/ Method2 \/ Method3 \/ AfterSweep \/ Final)

\* C20: a call makes at most 14 list_transcripts calls and at most 14 fetch
\* calls (one in Method 1, one in Method 2, at most 12 in the sweep), one entry
\* of the attempt log per attempt; no code of the sweep is tried twice or after
\* the requested language was; every step brings the call closer to its end,
\* and a call that has not ended can always take a step.
C20_BoundedWork ==
  /\ [](/\ calls.list <= 14
        /\ calls.fetch <= calls.list
        /\ pc \in {"method1", "method2"} => calls.list = PcRank - 1
        /\ pc = "method3" => calls.list <= 2 + (test_idx - 1)
        /\ pc # "start" => Len(attempted_methods) = calls.list
        /\ \A a, b \in 3..Len(attempted_methods) :
              a # b => Tag(attempted_methods[a]) # Tag(attempted_methods[b])
        /\ \A a \in 3..Len(attempted_methods) :
              Tag(attempted_methods[a]) # Fmt(lang)
        /\ CanStep)
  /\ [][run' = run => Remaining' < Remaining]_vars
  /\ [][/\ calls'.list <= calls.list + 1
        /\ calls'.fetch <= calls.fetch + 1
        /\ Len(attempted_methods') <= Len(attempted_methods) + 1]_vars

\* all 14 attempts were made and the call has ended
C20_Witness ==
  /\ pc = "done"
  /\ calls.list = 14
  /\ Len(attempted_methods) = 14
  /\ calls.fetch = 3


\* the frame of the first request, running or suspended
InvocationA == IF current = "a" THEN Frame ELSE peer[1]

\* C17: the attempt log, the language, the segments and the response of a
\* request served while another invocation is interleaved with it are those of
\* the same request served alone, and a step of one invocation leaves the
\* frame of the other as it is.
C17_RequestIsolation ==
  /\ []((run = 2 /\ InvocationA.pc = "done") =>
          /\ InvocationA.attempted_methods = prev[1].attempted_methods
          /\ InvocationA.actual_language = prev[1].actual_language
          /\ InvocationA.transcript_data = prev[1].transcript_data
          /\ InvocationA.response = prev[1].response
          /\ InvocationA.error = prev[1].error)
  /\ [][current' = current => peer' = peer]_vars

\* the first request, interleaved with the second, ended with 200 after a
\* failed attempt while the second is suspended in its sweep
C17_Witness ==
  /\ run = 2
  /\ current = "a"
  /\ pc = "done"
  /\ overlapped
  /\ response.status = 200
  /\ Len(attempted_methods) = 2
  /\ peer[1].pc = "method3"
  /\ Len(peer[1].attempted_methods) >= 3
====
